---- MODULE Spec2Model ----
(***************************************************************************)
(* State machine of src/main.py (TerGptApp): the tab strip, the chat tree, *)
(* the per-session views and the on-disk chat logs, with one action per    *)
(* handler.  A handler that awaits the completion request is split at that *)
(* await (Send / Deliver); on_mount is split at the awaits of its tab      *)
(* creation.  Tree.select_node is taken to call the NodeSelected handler   *)
(* before it returns, which is what the _syncing_ui guard presupposes.     *)
(***************************************************************************)
EXTENDS Integers, Sequences, FiniteSets, TLC

\* ---------------------------------------------------------------- bounds
MaxId == 3          \* largest session ordinal the model mints
MaxSends == 1       \* chat turns submitted in one run
MaxInFlight == 1    \* completion requests in flight at once

\* bounds of SpecResend, the runs in which the user sends again while a
\* request is in flight
ResendMaxId == 2
ResendMaxSends == 2
ResendMaxInFlight == 2

\* ------------------------------------------------------------- constants
None == 0           \* Python None / empty tabs.active
Root == -1          \* the tree's root node ("Chats")

Ids == 1..MaxId

VARIABLES
    files,          \* ordinals n with a file chat_history/chat_n.jsonl
    log,            \* log[n]: the lines of that file, in order
    panes,          \* ids of the TabPanes of #tabs, in tab order
    active,         \* tabs.active
    views,          \* self.views: session id -> bubbles mounted in its view
    tree_nodes,     \* keys of self.tree_nodes
    children,       \* data of tree.root.children, in order
    cursor,         \* the node selected in #chat_tree
    last_tree_sid,  \* self._last_tree_sid
    syncing_ui,     \* self._syncing_ui
    ta,             \* text of the #in TextArea, as words
    inflight,       \* model_response coroutines suspended at the request
    pc,             \* "on_mount", "mount_loop", "mount_new", "idle", "crashed"
    mount_sid,      \* on_mount's local sid while it is suspended
    sent,           \* history: chat turns submitted so far
    lastOp,         \* history: the handler that ran last, and what it saw
    everCreated,    \* history: ids of all sessions created in this run
    handlerCalls,   \* history: NodeSelected handler entries in the last handler
    bodyRuns,       \* history: of those, the ones that passed the guard
    awaitedSyncing  \* history: the last handler awaited with _syncing_ui set

vars == <<files, log, panes, active, views, tree_nodes, children, cursor,
          last_tree_sid, syncing_ui, ta, inflight, pc, mount_sid,
          sent, lastOp, everCreated, handlerCalls, bodyRuns,
          awaitedSyncing>>

\* ------------------------------------------------------------- helpers
Max(S) == CHOOSE x \in S : \A y \in S : y <= x
Min(S) == CHOOSE x \in S : \A y \in S : x <= y

RECURSIVE SortedSeq(_)
SortedSeq(S) == IF S = {} THEN <<>> ELSE <<Min(S)>> \o SortedSeq(S \ {Min(S)})

Range(q) == {q[i] : i \in 1..Len(q)}

\* Python list index of x in q (0-based), or -1
IndexOf(q, x) == IF x \in Range(q) THEN Min({i \in 1..Len(q) : q[i] = x}) - 1 ELSE -1

RemoveAll(q, x) == SelectSeq(q, LAMBDA e : e # x)

Restrict(f, S) == [x \in S |-> f[x]]

\* ---------------------------------------------------------- log records
\* One line of a .jsonl file: ok = FALSE is a line json.loads rejects.
Rec(role, content) == [role |-> role, content |-> content, ok |-> TRUE]
Malformed == [role |-> "?", content |-> <<"?">>, ok |-> FALSE]

\* A mounted Markdown bubble; rid # 0 only for the "_Thinking..._" placeholder,
\* whose object the suspended coroutine keeps (typing_md).
Bubble(role, content, rid) == [role |-> role, content |-> content, rid |-> rid]

\* Message texts are word sequences, as the prompts are.
WelcomeText == <<"_New chat started. Press Ctrl+Enter to send._">>
LoadErrorText == <<"_Couldn't load history_">>
WarningText == <<"_Warning: couldn't delete_">>
CantCloseText == <<"_Can't close the last chat_">>
ThinkingText == <<"_Thinking..._">>
ReplyText == <<"response.output_text">>
ErrorText == <<"**Error:**">>

\* ------------------------------------------------------------- utilities
list_session_ids(fs) == SortedSeq(fs)

next_session_id(fs) ==
    LET ids == list_session_ids(fs)
    IN IF Len(ids) = 0 THEN 1 ELSE ids[Len(ids)] + 1


\* ------------------------------------------------- the state as a record
\* The handlers below are functions on this record.  raised, sel, raiseAt,
\* rmFailed, minted, calls and runs live for one handler only.
Cur ==
    [files |-> files, log |-> log, panes |-> panes, active |-> active,
     views |-> views, tree_nodes |-> tree_nodes,
     children |-> children, cursor |-> cursor,
     last |-> last_tree_sid, syncing |-> syncing_ui, ta |-> ta,
     inflight |-> inflight,
     raised |-> FALSE,    \* an exception is propagating out of the handler
     sel |-> 0,           \* Tree.select_node calls made so far
     raiseAt |-> 0,       \* the select_node call that raises (0: none does)
     rmFailed |-> FALSE,  \* os.remove raised
     minted |-> None,     \* the id next_session_id returned
     dispatch |-> "none", \* the branch the handler took
     held |-> FALSE,      \* an await was reached with _syncing_ui set
     calls |-> 0, runs |-> 0]

Put(f, k, v) == [x \in DOMAIN f \cup {k} |-> IF x = k THEN v ELSE f[x]]

\* an await expression: the coroutine yields to the event loop here
Await(s) == [s EXCEPT !.held = @ \/ s.syncing]

\* ------------------------------------------------- bubbles & persistence
_current_view(s, sid) ==
    IF sid \in DOMAIN s.views THEN s
    ELSE [s EXCEPT !.views = Put(@, sid, <<>>)]

add_message(s, role, content, sid, rid) ==
    LET s1 == _current_view(s, sid)
    IN [s1 EXCEPT !.views[sid] = Append(@, Bubble(role, content, rid))]

_system_bubble(s, sid, text) == add_message(s, "system", text, sid, 0)

\* open(path, "a") creates the file when it is absent
save_message(s, role, content, sid) ==
    [s EXCEPT !.files = @ \cup {sid},
              !.log[sid] = Append(@, Rec(role, content))]

\* a creation that writes the welcome turn into the new file
CreateFile_withWelcome(s, sid) == save_message(s, "system", WelcomeText, sid)

\* open(path, "a").close()
CreateFile(s, sid) == [s EXCEPT !.files = @ \cup {sid}]

\* the for loop of load_history from line i on; json.loads raising leaves
\* the loop for the except clause
RECURSIVE LoadLines(_, _, _, _)
LoadLines(s, sid, lines, i) ==
    IF i > Len(lines) THEN s
    ELSE IF ~lines[i].ok THEN add_message(s, "system", LoadErrorText, sid, 0)
    ELSE LoadLines(add_message(s, lines[i].role, lines[i].content, sid, 0),
                   sid, lines, i + 1)

load_history(s, sid) ==
    IF sid \notin s.files THEN s ELSE LoadLines(s, sid, s.log[sid], 1)

\* ------------------------------------------------------- tab management
\* a lookup that never finds the pane
get_pane_missing(s, sid) == None

get_pane(s, sid) == IF sid \in Range(s.panes) THEN sid ELSE None

_create_tab_for_session(s, sid, switch, loadHist, welcome) ==
    LET added == Await([s EXCEPT !.panes = Append(@, sid)])
        mounted == Await(added)
        s1 == [mounted EXCEPT !.active = IF switch THEN sid ELSE @,
                              !.views = Put(@, sid, <<>>)]
    IN IF loadHist THEN load_history(s1, sid)
       ELSE IF welcome THEN add_message(s1, "system", WelcomeText, sid, 0)
       ELSE s1

\* ---------------------------------------------------------- tree helpers
_add_tree_node_for_session(s, sid) ==
    [s EXCEPT !.children = Append(@, sid), !.tree_nodes = @ \cup {sid}]

\* a handler that forgets the flag
GuardPasses_noFlag(s, node) == node # Root

GuardPasses(s, node) == ~(node = Root \/ s.syncing)

\* a handler that rebuilds the tab from the log on every selection
SwitchTo_reload(s, node) ==
    _create_tab_for_session([s EXCEPT !.dispatch = "reload"], node,
                            TRUE, TRUE, FALSE)

\* lines 197-205; dispatch records the branch taken
SwitchTo(s, node) ==
    IF s.active = node THEN [s EXCEPT !.dispatch = "same"]
    ELSE IF get_pane(s, node) = None
         THEN _create_tab_for_session([s EXCEPT !.dispatch = "reload"], node,
                                      TRUE, TRUE, FALSE)
         ELSE [s EXCEPT !.active = node, !.dispatch = "switch"]

on_tree_node_selected(s, node) ==
    LET s0 == [s EXCEPT !.calls = @ + 1]
    IN IF ~GuardPasses(s0, node) THEN s0
       ELSE SwitchTo([s0 EXCEPT !.runs = @ + 1, !.last = node], node)

\* Tree.select_node(node): moves the cursor and delivers NodeSelected, or raises
select_node(s, node) ==
    LET n == s.sel + 1
    IN IF n = s.raiseAt THEN [s EXCEPT !.sel = n, !.raised = TRUE]
       ELSE on_tree_node_selected([s EXCEPT !.sel = n, !.cursor = node], node)

_select_tree_node(s, sid) ==
    IF sid \in s.tree_nodes
    THEN LET s1 == select_node(s, sid)
         IN IF s1.raised THEN s1 ELSE [s1 EXCEPT !.last = sid]
    ELSE s

\* the flag reset written after the selection instead of in a finally clause
RestoreFlag_unlessRaised(s) == IF s.raised THEN s ELSE [s EXCEPT !.syncing = FALSE]

\* the finally clause of every guarded region
RestoreFlag(s) == [s EXCEPT !.syncing = FALSE]

_remove_tree_node(s, sid) ==
    IF s.raised THEN s
    ELSE
    LET s1 == [s EXCEPT !.tree_nodes = @ \ {sid},
                        !.children = IF sid \in s.tree_nodes
                                     THEN RemoveAll(@, sid) ELSE @]
        ch == s1.children
    IN IF Len(ch) > 0
       THEN LET s2 == select_node([s1 EXCEPT !.syncing = TRUE], ch[1])
            IN RestoreFlag(IF s2.raised THEN s2 ELSE [s2 EXCEPT !.last = ch[1]])
       ELSE RestoreFlag([s1 EXCEPT !.syncing = TRUE, !.cursor = None,
                                   !.last = None])


\* ------------------------------------------- close vs. permanent delete
\* history: the requests of a session whose tab and view go away are orphans
MarkOrphans(reqs, sid) ==
    {IF r.sid = sid THEN [r EXCEPT !.orphan = TRUE] ELSE r : r \in reqs}

\* tabs.active left on the tab that was closed
ActiveAfterClose_closed(sid, new_active, remaining) == sid

\* line 368
ActiveAfterClose(sid, new_active, remaining) ==
    IF new_active \in Range(remaining) THEN new_active ELSE remaining[1]

_close_tab_only(s, sid) ==
    IF s.raised THEN s
    ELSE
    LET ps == s.panes
    IN IF Len(ps) <= 1 THEN _system_bubble(s, sid, CantCloseText)
       ELSE
       LET found == IndexOf(ps, sid)
           idx == IF found = -1 THEN 0 ELSE found
           new_idx == IF idx < Len(ps) - 1 THEN idx + 1 ELSE idx - 1
           new_active == ps[new_idx + 1]
           s1 == [Await(s) EXCEPT !.panes = RemoveAll(@, sid),
                           !.views = Restrict(@, DOMAIN @ \ {sid}),
                           !.inflight = MarkOrphans(@, sid)]
           remaining == s1.panes
       IN IF Len(remaining) > 0
          THEN LET active_id == ActiveAfterClose(sid, new_active, remaining)
                   s2 == [s1 EXCEPT !.active = active_id, !.syncing = TRUE]
               IN RestoreFlag(_select_tree_node(s2, active_id))
          ELSE s1

\* lines 226-230: the guarded selection of a freshly created session
SilentSelect(s, sid) ==
    RestoreFlag(_select_tree_node([s EXCEPT !.syncing = TRUE], sid))

\* the flag set before the tab is created instead of around the selection
CreateFreshSession_flagFirst(s) ==
    LET new_sid == next_session_id(s.files)
        s1 == CreateFile([s EXCEPT !.minted = new_sid, !.syncing = TRUE], new_sid)
        s2 == _create_tab_for_session(s1, new_sid, TRUE, FALSE, TRUE)
        s3 == _add_tree_node_for_session(s2, new_sid)
    IN RestoreFlag(_select_tree_node(s3, new_sid))

\* lines 392-402 (and 221-230): mint, create the file, the tab, the node
CreateFreshSession(s) ==
    LET new_sid == next_session_id(s.files)
        s1 == CreateFile([s EXCEPT !.minted = new_sid], new_sid)
        s2 == _create_tab_for_session(s1, new_sid, TRUE, FALSE, TRUE)
        s3 == _add_tree_node_for_session(s2, new_sid)
    IN SilentSelect(s3, new_sid)

\* a delete that never creates the replacement
NeedsReplacement_never(s) == FALSE

NeedsReplacement(s) == Len(s.panes) <= 1

\* a delete that leaves the file alone
RemoveFile_skipped(s, sid, rmFails) == s

\* an os.remove whose exception leaves the handler
RemoveFile_fatal(s, sid, rmFails) ==
    IF s.raised \/ sid \notin s.files THEN s
    ELSE IF rmFails THEN [s EXCEPT !.rmFailed = TRUE, !.raised = TRUE]
         ELSE [s EXCEPT !.files = @ \ {sid}, !.log[sid] = <<>>]

\* lines 407-415: os.remove, which may raise (rmFails)
RemoveFile(s, sid, rmFails) ==
    IF s.raised \/ sid \notin s.files THEN s
    ELSE IF rmFails
         THEN LET s1 == [s EXCEPT !.rmFailed = TRUE]
              IN IF s1.active # None
                 THEN _system_bubble(s1, s1.active, WarningText)
                 ELSE s1
         ELSE [s EXCEPT !.files = @ \ {sid}, !.log[sid] = <<>>]

_permanently_delete_chat(s, sid, rmFails) ==
    LET s1 == IF NeedsReplacement(s) THEN CreateFreshSession(s) ELSE s
        s2 == _close_tab_only(s1, sid)
        s3 == RemoveFile(s2, sid, rmFails)
    IN _remove_tree_node(s3, sid)

action_new_tab(s) == CreateFreshSession(s)

\* Ctrl+W closing the tab only
action_close_tab_only(s, rmFails) ==
    IF s.active # None THEN _close_tab_only(s, s.active) ELSE s

action_close_tab(s, rmFails) ==
    IF s.active # None THEN _permanently_delete_chat(s, s.active, rmFails)
    ELSE s

\* the btn_delete branch of on_button_pressed
DeleteTarget(s) == IF s.last # None THEN s.last ELSE s.active

on_button_delete(s, rmFails) ==
    IF DeleteTarget(s) # None
    THEN _permanently_delete_chat(s, DeleteTarget(s), rmFails)
    ELSE s


\* --------------------------------------------------------- send / model
\* prompt_input.startswith("/rename "): the word "/rename", a space, more text
StartsWithRename(prompt) == Len(prompt) >= 2 /\ prompt[1] = "/rename"

\* lines 486-497: the input is cleared and the pane and the node are
\* relabelled; titles and labels are not part of the state, no handler of
\* the model reads them
RenameCommand(s, sid) == [s EXCEPT !.ta = <<>>, !.dispatch = "rename"]

ClearInput(s) == [s EXCEPT !.ta = <<>>]

\* lines 511-518: the chat turn, up to the await of the request
SubmitTurn(s, sid, prompt, rid) ==
    LET s1 == add_message(s, "user", prompt, sid, 0)
        s2 == save_message(s1, "user", prompt, sid)
        s3 == ClearInput(s2)
        s4 == Await(add_message(s3, "status", ThinkingText, sid, rid))
    IN [s4 EXCEPT !.dispatch = "chat",
                  !.inflight = @ \cup {[rid |-> rid, sid |-> sid,
                                        turn |-> Len(s2.log[sid]),
                                        orphan |-> FALSE]}]

model_response(s, rid, rmFails) ==
    LET sid == s.active
        prompt == s.ta
    IN IF sid = None THEN s
       ELSE IF prompt = <<>> THEN s
       ELSE IF StartsWithRename(prompt) THEN RenameCommand(s, sid)
       ELSE IF prompt = <<"/new">>
            THEN action_new_tab([ClearInput(s) EXCEPT !.dispatch = "new"])
       ELSE IF prompt = <<"/close">>
            THEN action_close_tab([ClearInput(s) EXCEPT !.dispatch = "close"], rmFails)
       ELSE IF prompt = <<"/delete">>
            THEN _permanently_delete_chat(
                     [ClearInput(s) EXCEPT !.dispatch = "delete"], sid, rmFails)
       ELSE SubmitTurn(s, sid, prompt, rid)

\* a coroutine that leaves the placeholder mounted
RemoveTyping_kept(s, rid) == s

\* typing_md.remove(): the placeholder leaves the view it is mounted in
RemoveTyping(s, rid) ==
    [s EXCEPT !.views = [v \in DOMAIN @ |->
                            SelectSeq(@[v], LAMBDA b : b.rid # rid)]]

\* lines 533-539: model_response resumed with the outcome of the request
ResumeResponse(s, req, ok) ==
    LET output == IF ok THEN ReplyText ELSE ErrorText
        s1 == RemoveTyping(s, req.rid)
        s2 == add_message(s1, "assistant", output, req.sid, 0)
        s3 == save_message(s2, "assistant", output, req.sid)
    IN [s3 EXCEPT !.inflight = @ \ {req},
                  !.dispatch = IF ok THEN "reply" ELSE "error"]

\* ------------------------------------------------------------- actions
Prompts == {<<"hi">>, <<"/new">>, <<"/close">>, <<"/delete">>,
            <<"/rename", "t">>, <<"/new", "x">>}

\* What chat_history/ may hold before startup: nothing, one chat with two
\* turns, one chat whose first line is not JSON, two chats.
History == <<Rec("user", <<"hi">>), Rec("assistant", ReplyText)>>
Corrupt == <<Malformed, Rec("user", <<"hi">>)>>
EmptyStore == [i \in Ids |-> <<>>]
InitStores ==
    {[files |-> {}, log |-> EmptyStore],
     [files |-> {1}, log |-> [EmptyStore EXCEPT ![1] = History]],
     [files |-> {1}, log |-> [EmptyStore EXCEPT ![1] = Corrupt]],
     [files |-> {1, 2}, log |-> [EmptyStore EXCEPT ![1] = History]]}

NoOp == [op |-> "init", sid |-> None, rmFailed |-> FALSE, minted |-> None,
         dispatch |-> "none"]

Init ==
    /\ \E st \in InitStores : files = st.files /\ log = st.log
    /\ sent = 0
    /\ panes = <<>> /\ active = None
    /\ views = <<>>
    /\ tree_nodes = {} /\ children = <<>>
    /\ cursor = None /\ last_tree_sid = None /\ syncing_ui = FALSE
    /\ ta = <<>> /\ inflight = {}
    /\ pc = "on_mount" /\ mount_sid = None
    /\ lastOp = NoOp /\ everCreated = {}
    /\ handlerCalls = 0 /\ bodyRuns = 0 /\ awaitedSyncing = FALSE

\* The handler's result becomes the state; an exception that left the handler
\* ends the application.
Commit(s, op, target, nextPc) ==
    /\ files' = s.files /\ log' = s.log /\ panes' = s.panes
    /\ active' = s.active /\ views' = s.views
    /\ tree_nodes' = s.tree_nodes /\ children' = s.children
    /\ cursor' = s.cursor
    /\ last_tree_sid' = s.last /\ syncing_ui' = s.syncing /\ ta' = s.ta
    /\ inflight' = s.inflight
    /\ pc' = IF s.raised THEN "crashed" ELSE nextPc
    /\ lastOp' = [op |-> op, sid |-> target, rmFailed |-> s.rmFailed,
                  minted |-> s.minted, dispatch |-> s.dispatch]
    /\ everCreated' = everCreated \cup
                        (IF s.minted = None THEN {} ELSE {s.minted})
                        \cup Range(s.panes)
    /\ handlerCalls' = s.calls /\ bodyRuns' = s.runs
    /\ awaitedSyncing' = s.held
    /\ sent' = IF s.dispatch = "chat" THEN sent + 1 ELSE sent

InBounds(s) ==
    /\ s.minted <= MaxId
    /\ s.dispatch = "chat" => sent < MaxSends
    /\ Cardinality(s.inflight) <= MaxInFlight

\* on_mount, lines 141-152 and the start of either branch
MountBegin ==
    /\ pc = "on_mount"
    /\ LET existing == list_session_ids(files)
           s0 == [Cur EXCEPT !.views = <<>>, !.tree_nodes = {},
                             !.syncing = TRUE]
       IN IF Len(existing) > 0
          THEN /\ mount_sid' = existing[1]
               /\ Commit(s0, "mount_begin", None, "mount_loop")
          ELSE LET sid == next_session_id(files)
               IN /\ mount_sid' = sid
                  /\ Commit(CreateFile([s0 EXCEPT !.minted = sid], sid),
                            "mount_begin", None, "mount_new")

\* one iteration of the loop of lines 155-157 that is not the last
MountCreateTab ==
    /\ pc = "mount_loop"
    /\ LET existing == list_session_ids(files)
           i == IndexOf(existing, mount_sid) + 1
       IN /\ i < Len(existing)
          /\ mount_sid' = existing[i + 1]
          /\ Commit(_add_tree_node_for_session(
                        _create_tab_for_session(Cur, mount_sid, FALSE, TRUE, FALSE),
                        mount_sid),
                    "mount_tab", mount_sid, "mount_loop")

\* the last iteration, lines 158-159 and the finally clause
MountFinish ==
    /\ pc = "mount_loop"
    /\ LET existing == list_session_ids(files)
           last == existing[Len(existing)]
       IN /\ mount_sid = last
          /\ mount_sid' = None
          /\ \E raiseAt \in 0..1 :
               LET s1 == _add_tree_node_for_session(
                             _create_tab_for_session(
                                 [Cur EXCEPT !.raiseAt = raiseAt],
                                 last, FALSE, TRUE, FALSE), last)
                   s2 == [s1 EXCEPT !.active = last]
               IN Commit(RestoreFlag(_select_tree_node(s2, last)),
                         "mount", last, "idle")

\* lines 163-167
MountNewFinish ==
    /\ pc = "mount_new"
    /\ mount_sid' = None
    /\ \E raiseAt \in 0..1 :
         LET s1 == _create_tab_for_session([Cur EXCEPT !.raiseAt = raiseAt],
                                           mount_sid, TRUE, FALSE, TRUE)
             s2 == _add_tree_node_for_session(s1, mount_sid)
         IN Commit(RestoreFlag(_select_tree_node(s2, mount_sid)),
                   "mount", mount_sid, "idle")

\* Ctrl+N or the "new" button
NewTab ==
    /\ pc = "idle"
    /\ \E raiseAt \in 0..1 :
         LET r == action_new_tab([Cur EXCEPT !.raiseAt = raiseAt])
         IN /\ InBounds(r)
            /\ Commit(r, "new", None, "idle")
    /\ UNCHANGED mount_sid

\* Ctrl+W
CloseTab ==
    /\ pc = "idle"
    /\ \E raiseAt \in 0..3, rmFails \in BOOLEAN :
         LET r == action_close_tab([Cur EXCEPT !.raiseAt = raiseAt], rmFails)
         IN /\ InBounds(r)
            /\ Commit(r, "close", active, "idle")
    /\ UNCHANGED mount_sid

\* the "delete" button
DeleteButton ==
    /\ pc = "idle"
    /\ \E raiseAt \in 0..3, rmFails \in BOOLEAN :
         LET r == on_button_delete([Cur EXCEPT !.raiseAt = raiseAt], rmFails)
         IN /\ InBounds(r)
            /\ Commit(r, "delete", DeleteTarget(Cur), "idle")
    /\ UNCHANGED mount_sid

\* the user selects a node of the tree
TreeSelect ==
    /\ pc = "idle"
    /\ \E node \in Range(children) \cup {Root} :
         Commit(on_tree_node_selected([Cur EXCEPT !.cursor = node], node),
                "select", node, "idle")
    /\ UNCHANGED mount_sid

FreshRid ==
    LET free == {i \in 1..(MaxInFlight + 1) : \A r \in inflight : r.rid # i}
    IN Min(free)

\* the select_node calls that may raise and the outcomes of os.remove, for
\* the handlers the text p can reach
RaiseChoices(p) ==
    IF p \in {<<"/close">>, <<"/delete">>} THEN 0..3
    ELSE IF p = <<"/new">> THEN 0..1 ELSE {0}
RemoveChoices(p) ==
    IF p \in {<<"/close">>, <<"/delete">>} THEN BOOLEAN ELSE {FALSE}

\* Ctrl+Enter with text p in the input field
Send ==
    /\ pc = "idle"
    /\ \E p \in Prompts \cup {<<>>} :
       \E raiseAt \in RaiseChoices(p), rmFails \in RemoveChoices(p) :
         LET r == model_response([Cur EXCEPT !.ta = p, !.raiseAt = raiseAt],
                                 FreshRid, rmFails)
         IN /\ InBounds(r)
            /\ Commit(r, "send", active, "idle")
    /\ UNCHANGED mount_sid

\* the request of a suspended model_response returns or raises
Deliver ==
    /\ pc = "idle"
    /\ \E req \in inflight, ok \in BOOLEAN :
         Commit(ResumeResponse(Cur, req, ok), "deliver", req.sid, "idle")
    /\ UNCHANGED mount_sid

Next ==
    \/ MountBegin
    \/ MountCreateTab
    \/ MountFinish
    \/ MountNewFinish
    \/ NewTab
    \/ CloseTab
    \/ DeleteButton
    \/ TreeSelect
    \/ Send
    \/ Deliver

Spec == Init /\ [][Next]_vars

\* ------------------------------------------------ sending again (C13)
\* The runs of the application in which nothing is deleted and the user
\* may press Ctrl+Enter again before the request of an earlier send has
\* returned: the same handlers, with room for two requests in flight.
ResendStores ==
    {[files |-> {}, log |-> EmptyStore],
     [files |-> {1}, log |-> [EmptyStore EXCEPT ![1] = History]]}

InitResend ==
    /\ Init
    /\ \E st \in ResendStores : files = st.files /\ log = st.log

InBoundsResend(s) ==
    /\ s.minted <= ResendMaxId
    /\ s.dispatch = "chat" => sent < ResendMaxSends
    /\ Cardinality(s.inflight) <= ResendMaxInFlight

FreshRidResend ==
    LET free == {i \in 1..(ResendMaxInFlight + 1) :
                    \A r \in inflight : r.rid # i}
    IN Min(free)

\* Ctrl+N or the "new" button
NewTabResend ==
    /\ pc = "idle"
    /\ LET r == action_new_tab(Cur)
       IN /\ InBoundsResend(r)
          /\ Commit(r, "new", None, "idle")
    /\ UNCHANGED mount_sid

\* Ctrl+Enter with a chat turn in the input field
SendResend ==
    /\ pc = "idle"
    /\ LET r == model_response([Cur EXCEPT !.ta = <<"hi">>],
                               FreshRidResend, FALSE)
       IN /\ InBoundsResend(r)
          /\ Commit(r, "send", active, "idle")
    /\ UNCHANGED mount_sid

NextResend ==
    \/ MountBegin
    \/ MountFinish
    \/ MountNewFinish
    \/ NewTabResend
    \/ TreeSelect
    \/ SendResend
    \/ Deliver

SpecResend == InitResend /\ [][NextResend]_vars

TypeOK ==
    /\ files \subseteq Ids
    /\ Range(panes) \subseteq Ids
    /\ active \in Ids \cup {None}
    /\ DOMAIN views \subseteq Ids
    /\ tree_nodes \subseteq Ids
    /\ cursor \in Ids \cup {None, Root}
    /\ last_tree_sid \in Ids \cup {None}
    /\ syncing_ui \in BOOLEAN
    /\ pc \in {"on_mount", "mount_loop", "mount_new", "idle", "crashed"}


\* ================================================================ claims
\* deleteSession is reached from the delete button, from Ctrl+W and from the
\* /close and /delete commands
IsDelete(o) ==
    \/ o.op \in {"close", "delete"}
    \/ o.op = "send" /\ o.dispatch \in {"close", "delete"}

\* the close-chat action: Ctrl+W or the /close command
IsCloseAction(o) ==
    \/ o.op = "close"
    \/ o.op = "send" /\ o.dispatch = "close"

MountOps == {"init", "mount_begin", "mount_tab", "mount"}

\* a session: an open tab with its view and its navigation entry
SessionExists(sid) ==
    /\ sid \in Range(panes)
    /\ sid \in DOMAIN views
    /\ sid \in tree_nodes
    /\ sid \in Range(children)

\* C1: once on_mount has finished, after every handler that completes (new
\* chat, close, delete, in any order) at least one session exists.
C1_AtLeastOneSession ==
    pc = "idle" => \E sid \in Ids : SessionExists(sid)

\* C1 witness: the only session was deleted and its replacement is there
C1_Witness ==
    /\ pc = "idle"
    /\ IsDelete(lastOp) /\ lastOp.minted # None
    /\ Len(panes) = 1 /\ SessionExists(panes[1])

\* C2 (as claimed): between handlers the active tab, the selected tree node
\* and _last_tree_sid name the same session.  A selected root names no
\* session and is left out.
C2_SelectionMatchesActiveTab ==
    (pc = "idle" /\ cursor # Root) =>
        (active = cursor /\ last_tree_sid = active)

\* C3 (as claimed): when model_response resumes for a request whose session
\* was closed or deleted meanwhile, nothing is displayed, registered or
\* written.
C3_OrphanResultDiscarded ==
    [][\A req \in inflight :
          (req \notin inflight' /\ req.orphan)
              => (views' = views /\ log' = log /\ files' = files)]_vars

\* C4 (as claimed): an id minted by next_session_id was never the id of a
\* session of this run, and is max(existing) + 1, or 1 when no log exists.
C4_MintedIdsNeverReused ==
    [][lastOp'.minted # None =>
          /\ lastOp'.minted \notin everCreated
          /\ lastOp'.minted = (IF files = {} THEN 1 ELSE Max(files) + 1)]_vars

\* the state after the only session panes[1] was deleted: one tab, one
\* tree node, another id, and that tab active
ReplacedOnlySession ==
    /\ Len(panes') = 1
    /\ panes'[1] # panes[1]
    /\ tree_nodes' = {panes'[1]}
    /\ children' = <<panes'[1]>>
    /\ panes'[1] \in DOMAIN views'
    /\ active' = panes'[1]

DeletesOnlySession ==
    /\ pc = "idle" /\ pc' = "idle"
    /\ IsDelete(lastOp')
    /\ Len(panes) = 1 /\ lastOp'.sid = panes[1]

\* C5 (as claimed): deleting the only session leaves exactly one session,
\* with another id, active, and the file of the deleted one is gone.
C5_DeleteOnlySession_Original ==
    [][DeletesOnlySession =>
          (ReplacedOnlySession /\ panes[1] \notin files')]_vars

\* C5 (amended): deleting the only session leaves exactly one session, with
\* another id, active; the file of the deleted one is gone unless os.remove
\* raised, and then a warning is shown in the new session.
C5_DeleteOnlySession ==
    [][DeletesOnlySession =>
          /\ ReplacedOnlySession
          /\ panes[1] \notin files' \/ lastOp'.rmFailed
          /\ lastOp'.rmFailed =>
                /\ panes[1] \in files'
                /\ \E i \in 1..Len(views'[active']) :
                      views'[active'][i] = Bubble("system", WarningText, 0)]_vars

\* C5 witness: the only session was deleted, its file removed
C5_Witness ==
    /\ pc = "idle"
    /\ IsDelete(lastOp) /\ lastOp.minted # None /\ ~lastOp.rmFailed
    /\ lastOp.sid \notin files
    /\ Len(panes) = 1 /\ panes[1] = lastOp.minted

Shown(v) ==
    LET keep == SelectSeq(v, LAMBDA b :
                    /\ b.role # "status"
                    /\ ~(b.role = "system" /\ b.content = WelcomeText))
    IN [i \in 1..Len(keep) |-> <<keep[i].role, keep[i].content>>]

\* the records of a log, in order
Reloaded(l) ==
    LET recs == SelectSeq(l, LAMBDA r : r.ok)
    IN [i \in 1..Len(recs) |-> <<recs[i].role, recs[i].content>>]

\* C7 (as claimed): between handlers every open view shows, placeholder and
\* welcome turn apart, exactly the records of the session's log.
C7_ViewEqualsLog ==
    pc = "idle" =>
        \A sid \in DOMAIN views \cap Range(panes) :
            Shown(views[sid]) = Reloaded(log[sid])

\* C8: a handler that selects a node itself never gets past the guard of
\* on_tree_node_selected; a selection by the user enters the handler once,
\* and its body runs once (not at all for the root).
C8_ProgrammaticSelectionInert ==
    /\ lastOp.op = "select" =>
          /\ handlerCalls = 1
          /\ bodyRuns = (IF lastOp.sid = Root THEN 0 ELSE 1)
    /\ lastOp.op # "select" => bodyRuns = 0

\* C8 witness: a delete that created a replacement selected three nodes,
\* the handler was entered three times and its body never ran
C8_Witness ==
    /\ pc = "idle"
    /\ IsDelete(lastOp) /\ lastOp.minted # None
    /\ handlerCalls = 3 /\ bodyRuns = 0

\* C9 (as claimed): no handler reaches an await with _syncing_ui set, and
\* the flag is clear whenever a coroutine is suspended.
C9_NeverSyncingAtAwait ==
    /\ ~awaitedSyncing
    /\ (pc \in {"mount_loop", "mount_new"} \/ inflight # {}) => ~syncing_ui

\* C9 (amended): after startup no handler reaches an await with _syncing_ui
\* set, and the flag is clear while a completion request is in flight; only
\* on_mount holds the flag across the awaits of its tab creation.
C9_NoSyncingAtAwaitAfterStartup ==
    /\ lastOp.op \notin MountOps => ~awaitedSyncing
    /\ (pc = "idle" /\ inflight # {}) => ~syncing_ui

\* C9 witness: a request is in flight and a delete that set the flag three
\* times, with awaits in between, has completed
C9_Witness ==
    /\ pc = "idle" /\ inflight # {}
    /\ IsDelete(lastOp) /\ lastOp.minted # None
    /\ handlerCalls = 3

\* C10: whenever no handler is executing, also after one was left by an
\* exception of the selection, _syncing_ui is False.
C10_FlagFalseWhenIdle ==
    pc \in {"idle", "crashed"} => ~syncing_ui

\* C10 witness: select_node raised inside a delete and the flag is clear
C10_Witness ==
    /\ pc = "crashed"
    /\ IsDelete(lastOp)
    /\ ~syncing_ui

\* C11 (as claimed): between handlers, also after the result of a request
\* was delivered, every id with a registered view has exactly one tab and
\* exactly one tree node.
C11_ViewHasOneTabOneNode ==
    pc = "idle" =>
        \A sid \in DOMAIN views :
            /\ Cardinality({i \in 1..Len(panes) : panes[i] = sid}) = 1
            /\ Cardinality({i \in 1..Len(children) : children[i] = sid}) = 1
            /\ sid \in tree_nodes

\* C12: once on_mount has finished, between handlers tabs.active names one
\* session, and that session has an open tab and a registered view.
C12_OneActiveSession ==
    pc = "idle" =>
        /\ active # None
        /\ Cardinality({i \in 1..Len(panes) : panes[i] = active}) = 1
        /\ active \in DOMAIN views

\* C12 witness: the active chat of several was deleted and a neighbour,
\* with its tab and its view, is the active one
C12_Witness ==
    /\ pc = "idle"
    /\ IsDelete(lastOp) /\ lastOp.minted = None
    /\ lastOp.sid \notin Range(panes)
    /\ Len(panes) >= 2
    /\ active \in Range(panes) /\ active \in DOMAIN views

\* the requests of session sid that have not returned
Outstanding(sid) == {r \in inflight : r.sid = sid}

\* in log l every reply stands directly after a user turn
RepliesFollowTurns(l) ==
    \A i \in 1..Len(l) :
        (l[i].ok /\ l[i].role = "assistant")
            => (i > 1 /\ l[i - 1].ok /\ l[i - 1].role = "user")

\* C13 (as claimed): a session never has two completion requests in flight,
\* and in its log every reply stands directly after the user turn of its
\* own send.
C13_SingleFlightPerSession ==
    \A sid \in Ids :
        /\ Cardinality(Outstanding(sid)) <= 1
        /\ RepliesFollowTurns(log[sid])

\* a selection of session node by the user, the handler completed
UserSelects(node) ==
    /\ pc = "idle" /\ pc' = "idle"
    /\ lastOp'.op = "select" /\ lastOp'.sid = node

\* the close-chat action on a session whose log holds turns
ClosesSessionWithTurns(sid) ==
    /\ pc = "idle" /\ pc' = "idle"
    /\ IsCloseAction(lastOp') /\ lastOp'.sid = sid
    /\ sid \in files /\ log[sid] # <<>>

C15_SelectActiveIsNoOp ==
    [][(UserSelects(active) /\ active # None) =>
          /\ lastOp'.dispatch = "same"
          /\ panes' = panes /\ views' = views
          /\ active' = active
          /\ log' = log /\ files' = files]_vars

\* C15 witness: the user selected the active session
C15_Witness ==
    /\ pc = "idle"
    /\ lastOp.op = "select" /\ lastOp.dispatch = "same"
    /\ active = lastOp.sid /\ cursor = active

\* the request req of a session that still has its tab and view returns
\* with a failure
FailedDelivery(req) ==
    /\ req \in inflight /\ req \notin inflight'
    /\ ~req.orphan
    /\ lastOp'.op = "deliver" /\ lastOp'.dispatch = "error"

\* view v without the placeholder of request rid
WithoutTyping(v, rid) == SelectSeq(v, LAMBDA b : b.rid # rid)

\* what delivering the failure of req must leave behind, the error turn
\* carrying the given role
FailureOutcome(req, role) ==
    LET sid == req.sid
    IN /\ \E i \in 1..Len(views[sid]) : views[sid][i].rid = req.rid
       /\ views'[sid] = Append(WithoutTyping(views[sid], req.rid),
                               Bubble(role, ErrorText, 0))
       /\ req.turn \in 1..Len(log[sid])
       /\ log[sid][req.turn].role = "user"
       /\ log'[sid] = Append(log[sid], Rec(role, ErrorText))
       /\ inflight' = inflight \ {req}
       /\ ta' = ta

\* a send that dispatches a request has cleared the input field
DispatchClearsInput ==
    (lastOp'.op = "send" /\ lastOp'.dispatch = "chat") =>
        (ta' = <<>> /\ Cardinality(inflight') = Cardinality(inflight) + 1)

CommandWords == {"/new", "/rename", "/close", "/delete"}

BeginsWithCommand(content) == Len(content) >= 1 /\ content[1] \in CommandWords

\* C17 (as claimed): input that begins with /new, /rename, /close or
\* /delete, whatever follows, is never displayed or logged as a user turn
\* and never sent to the completion service, and a send leaves the input
\* field empty.
C17_CommandPrefixIntercepted ==
    /\ \A sid \in Ids : \A i \in 1..Len(log[sid]) :
          (log[sid][i].ok /\ log[sid][i].role = "user")
              => ~BeginsWithCommand(log[sid][i].content)
    /\ \A sid \in DOMAIN views : \A i \in 1..Len(views[sid]) :
          views[sid][i].role = "user"
              => ~BeginsWithCommand(views[sid][i].content)
    /\ lastOp.op = "send" => ta = <<>>

\* the bubbles of view v that came from records of the log
LoadedRecords(v) ==
    LET keep == SelectSeq(v, LAMBDA b : b.role # "system")
    IN [i \in 1..Len(keep) |-> <<keep[i].role, keep[i].content>>]

HasMalformed(l) == \E i \in 1..Len(l) : ~l[i].ok

\* C18 (as claimed): when on_mount has loaded the logs, the view of every
\* session shows all well-formed records of its log in log order, those
\* after a malformed line too, and a warning if a line was malformed.
C18_MalformedRecordSkipped ==
    (pc = "idle" /\ lastOp.op = "mount") =>
        \A sid \in DOMAIN views :
            /\ LoadedRecords(views[sid]) = Reloaded(log[sid])
            /\ HasMalformed(log[sid]) =>
                  \E i \in 1..Len(views[sid]) :
                      views[sid][i] = Bubble("system", LoadErrorText, 0)

\* a record of the placeholder or of the welcome turn
IsTransient(r) ==
    \/ r.role = "status"
    \/ r.content = ThinkingText
    \/ r.content = WelcomeText

\* C19: no log ever holds the placeholder or the welcome turn; a session a
\* handler has just created has an empty log while its view starts with the
\* welcome turn; and on an empty store on_mount creates chat 1, with an
\* empty log and the welcome turn as its only bubble.
C19_TransientsNeverPersisted ==
    [][/\ \A sid \in Ids : \A i \in 1..Len(log'[sid]) :
             log'[sid][i].ok => ~IsTransient(log'[sid][i])
       /\ (pc' = "idle" /\ lastOp'.minted # None) =>
             LET new_sid == lastOp'.minted
             IN /\ new_sid \in files' /\ log'[new_sid] = <<>>
                /\ new_sid \in DOMAIN views'
                /\ Len(views'[new_sid]) >= 1
                /\ views'[new_sid][1] = Bubble("system", WelcomeText, 0)
       /\ (pc = "on_mount" /\ files = {}) =>
             (pc' = "mount_new" /\ mount_sid' = 1 /\ files' = {1}
                /\ log'[1] = <<>>)
       /\ (pc = "mount_new" /\ pc' = "idle") =>
             /\ panes' = <<1>> /\ files' = {1} /\ log'[1] = <<>>
             /\ views'[1] = <<Bubble("system", WelcomeText, 0)>>]_vars

\* C19 witness: a new chat was created while a placeholder is displayed;
\* its log is empty, its view shows the welcome turn, and no log holds a
\* transient turn
C19_Witness ==
    /\ pc = "idle"
    /\ lastOp.op = "new" /\ lastOp.minted # None
    /\ log[lastOp.minted] = <<>>
    /\ views[lastOp.minted] = <<Bubble("system", WelcomeText, 0)>>
    /\ \E sid \in DOMAIN views : \E i \in 1..Len(views[sid]) :
          views[sid][i].role = "status"
    /\ \A sid \in Ids : \A i \in 1..Len(log[sid]) :
          log[sid][i].ok => ~IsTransient(log[sid][i])

\* the tab after sid in tab order ps if there is one, else the tab before it
Neighbor(ps, sid) ==
    LET k == IndexOf(ps, sid) + 1
    IN IF k < Len(ps) THEN ps[k + 1] ELSE ps[k - 1]

\* a completed delete of session sid, one of several open tabs
ClosesOneOfSeveral(sid) ==
    /\ pc = "idle" /\ pc' = "idle"
    /\ IsDelete(lastOp') /\ lastOp'.sid = sid
    /\ Len(panes) > 1 /\ sid \in Range(panes)

NeighborBecomesActive ==
    \A sid \in Ids : ClosesOneOfSeveral(sid) => active' = Neighbor(panes, sid)

\* C20 (as claimed): when a session that is one of several open tabs has
\* been closed by a delete, the next tab in tab order (the previous one if
\* it was the last) is the active tab, and the tree selection and
\* _last_tree_sid are on that same neighbour.
C20_NeighborActiveAndSelected ==
    [][/\ NeighborBecomesActive
       /\ \A sid \in Ids :
             ClosesOneOfSeveral(sid) =>
                 (cursor' = active' /\ last_tree_sid' = active')]_vars

\* the select_node calls a delete makes when none of them raises
SelectionsOfDelete(o) == IF o.minted # None THEN 3 ELSE 2

\* C21: when os.remove raises inside a delete of session sid, the delete
\* goes on: the tab, the view and the tree node of sid are removed, the
\* file stays, the warning is shown in the active session, a session
\* exists, and the handler returns normally unless a select_node call
\* raised.
C21_RemoveFailureNonFatal ==
    [][(IsDelete(lastOp') /\ lastOp'.rmFailed) =>
          LET sid == lastOp'.sid
          IN /\ sid \notin Range(panes') /\ sid \notin DOMAIN views'
             /\ sid \notin tree_nodes' /\ sid \notin Range(children')
             /\ sid \in files'
             /\ active' # None /\ active' # sid
             /\ active' \in Range(panes') /\ active' \in DOMAIN views'
             /\ \E i \in 1..Len(views'[active']) :
                   views'[active'][i] = Bubble("system", WarningText, 0)
             /\ \E other \in Ids :
                   /\ other \in Range(panes') /\ other \in DOMAIN views'
                   /\ other \in tree_nodes'
             /\ pc' = "idle" \/ handlerCalls' < SelectionsOfDelete(lastOp')
             /\ pc' = "idle" => ~syncing_ui']_vars

\* C21 witness: a delete whose os.remove raised has returned; the file is
\* still there, the session is gone from tabs, views and tree, and the
\* warning is displayed in the active session
C21_Witness ==
    /\ pc = "idle"
    /\ IsDelete(lastOp) /\ lastOp.rmFailed
    /\ lastOp.sid \in files
    /\ lastOp.sid \notin Range(panes) /\ lastOp.sid \notin tree_nodes
    /\ handlerCalls = SelectionsOfDelete(lastOp)
    /\ \E i \in 1..Len(views[active]) :
          views[active][i] = Bubble("system", WarningText, 0)

\* model_response resumes for request req
Delivered(req) ==
    /\ req \in inflight /\ req \notin inflight'
    /\ lastOp'.op = "deliver"

\* C22 (as claimed): a delivered result changes the view and the log of
\* no open session other than the one whose send issued the request; a
\* session opened under the same id after the issuing one was deleted is
\* another session.
C22_ReplyOnlyToIssuingSession ==
    [][\A req \in inflight :
          Delivered(req) =>
              \A sid \in Range(panes) :
                  (sid # req.sid \/ req.orphan) =>
                      /\ views'[sid] = views[sid]
                      /\ log'[sid] = log[sid]]_vars

====
